---- MODULE Spec2Model ----
(***************************************************************************)
(* Model of the text-to-sql-powerhouse SQL generators:                     *)
(*   sqlGeneratorSimple.js  (pattern matching)   -- variant "simple"       *)
(*   sqlGeneratorAI.js      (fenced-code model)  -- variant "ai"           *)
(*   sqlGenerator.js        (tagged model)       -- variant "tagged"       *)
(* and of the HTTP route POST /api/generate-sql (routes/api.js, index.js),  *)
(* which calls the fenced-code generator.                                  *)
(* Strings are TLA+ strings handled character by character with Len,       *)
(* SubSeq and \o, so that the JavaScript string operations (includes,      *)
(* startsWith, replace, trim, split, match) are computed as the code       *)
(* computes them.                                                          *)
(***************************************************************************)
EXTENDS Integers, Sequences, FiniteSets, TLC

(***************************************************************************)
(* Bounds of the model.                                                    *)
(***************************************************************************)
\* number of request slots that may run concurrently in Spec
NumReqs == 2
\* maximal number of lexemes concatenated into a tagged model response
MaxParts == 3
\* maximal number of words concatenated into a statement given to the validator
MaxWords == 3
\* maximal number of phrases concatenated into a question of SpecSimple
MaxPhrases == 2
\* maximal number of tasks given to runWithConcurrency
MaxTasks == 4
\* maximal concurrency given to runWithConcurrency
MaxWorkers == 3

Reqs == 1..NumReqs

(***************************************************************************)
(* JavaScript string primitives.                                           *)
(***************************************************************************)
UpperAlpha == "ABCDEFGHIJKLMNOPQRSTUVWXYZ"
LowerAlpha == "abcdefghijklmnopqrstuvwxyz"

CharAt(s, i) == SubSeq(s, i, i)

\* String.prototype.substring(from) with a 1-based index
Drop(s, n) == SubSeq(s, n + 1, Len(s))

Take(s, n) ==
  IF n <= 0 \/ Len(s) = 0 THEN ""
  ELSE SubSeq(s, 1, IF n > Len(s) THEN Len(s) ELSE n)

UpperChars == {CharAt(UpperAlpha, i) : i \in 1..26}

LowerOf ==
  [c \in UpperChars |->
     CharAt(LowerAlpha, CHOOSE i \in 1..26 : CharAt(UpperAlpha, i) = c)]

ToLowerChar(c) == IF c \in UpperChars THEN LowerOf[c] ELSE c

\* the characters lo..hi of s in lower case
RECURSIVE ToLowerRange(_, _, _)
ToLowerRange(s, lo, hi) ==
  IF lo > hi THEN ""
  ELSE IF lo = hi THEN ToLowerChar(CharAt(s, lo))
  ELSE LET mid == (lo + hi) \div 2 IN
       ToLowerRange(s, lo, mid) \o ToLowerRange(s, mid + 1, hi)

\* String.prototype.toLowerCase
ToLowerCase(s) == ToLowerRange(s, 1, Len(s))

\* s has t at (1-based) position i
MatchAt(s, t, i) ==
  /\ i >= 1
  /\ i + Len(t) - 1 <= Len(s)
  /\ SubSeq(s, i, i + Len(t) - 1) = t

\* String.prototype.includes
Includes(s, t) == \E i \in 1..(Len(s) - Len(t) + 1) : MatchAt(s, t, i)

\* String.prototype.startsWith
StartsWith(s, t) == MatchAt(s, t, 1)

\* String.prototype.endsWith
EndsWith(s, t) == MatchAt(s, t, Len(s) - Len(t) + 1)

\* position of the first occurrence of t in s, 0 when there is none
IndexOf(s, t) ==
  IF Includes(s, t)
  THEN CHOOSE i \in 1..(Len(s) - Len(t) + 1) :
         /\ MatchAt(s, t, i)
         /\ \A j \in 1..(i - 1) : ~MatchAt(s, t, j)
  ELSE 0

\* the white space of \s and of trim() that occurs in the inputs
IsSpace(c) == c \in {" ", "\n", "\t", "\r"}

RECURSIVE TrimStart(_)
TrimStart(s) ==
  IF Len(s) > 0 /\ IsSpace(CharAt(s, 1)) THEN TrimStart(Drop(s, 1)) ELSE s

RECURSIVE TrimEnd(_)
TrimEnd(s) ==
  IF Len(s) > 0 /\ IsSpace(CharAt(s, Len(s)))
  THEN TrimEnd(Take(s, Len(s) - 1)) ELSE s

\* String.prototype.trim
Trim(s) == TrimEnd(TrimStart(s))

\* String.prototype.replace(/t/g, ''): every leftmost non-overlapping
\* occurrence of the literal t is removed in one left-to-right pass
RECURSIVE RemoveAllFrom(_, _, _)
RemoveAllFrom(s, t, i) ==
  IF i > Len(s) THEN ""
  ELSE IF MatchAt(s, t, i) THEN RemoveAllFrom(s, t, i + Len(t))
  ELSE CharAt(s, i) \o RemoveAllFrom(s, t, i + 1)

RemoveAll(s, t) == RemoveAllFrom(s, t, 1)

(***************************************************************************)
(* validateSqlSyntax, stage one: the keyword screen (three copies).        *)
(***************************************************************************)
forbiddenKeywords ==
  <<"insert", "update", "delete", "drop", "create", "alter", "truncate",
    "grant", "revoke">>

\* Array.prototype.find over forbiddenKeywords: the first keyword, in the
\* order of the array, among those that satisfy the predicate (hits);
\* "" (undefined, falsy) when none does
FindKeyword(hits) ==
  IF \E i \in 1..Len(forbiddenKeywords) : forbiddenKeywords[i] \in hits
  THEN forbiddenKeywords[CHOOSE i \in 1..Len(forbiddenKeywords) :
         /\ forbiddenKeywords[i] \in hits
         /\ \A j \in 1..(i - 1) : forbiddenKeywords[j] \notin hits]
  ELSE ""

KeywordSet == {forbiddenKeywords[i] : i \in 1..Len(forbiddenKeywords)}

\* sqlGeneratorSimple.js
foundForbiddenKeywordSimple(sqlQuery) ==
  LET normalizedSql == ToLowerCase(sqlQuery)
      Hit(keyword) == \/ Includes(normalizedSql, " " \o keyword \o " ")
                      \/ StartsWith(normalizedSql, keyword \o " ")
  IN FindKeyword({keyword \in KeywordSet : Hit(keyword)})

\* a screen that looks for the keyword anywhere, also inside identifiers
foundForbiddenKeywordSubstring(sqlQuery) ==
  LET normalizedSql == ToLowerCase(sqlQuery)
      Hit(keyword) == Includes(normalizedSql, keyword)
  IN FindKeyword({keyword \in KeywordSet : Hit(keyword)})

\* sqlGeneratorAI.js
foundForbiddenKeywordAI(sqlQuery) ==
  LET normalizedSql == ToLowerCase(sqlQuery)
      Hit(keyword) == \/ Includes(normalizedSql, " " \o keyword \o " ")
                      \/ StartsWith(normalizedSql, keyword \o " ")
  IN FindKeyword({keyword \in KeywordSet : Hit(keyword)})

\* sqlGenerator.js
foundForbiddenKeywordTagged(sqlQuery) ==
  LET normalizedSql == ToLowerCase(sqlQuery)
      Hit(keyword) == Includes(normalizedSql, " " \o keyword \o " ")
  IN FindKeyword({keyword \in KeywordSet : Hit(keyword)})

foundForbiddenKeyword(v, sqlQuery) ==
  CASE v = "simple" -> foundForbiddenKeywordSimple(sqlQuery)
    [] v = "ai"     -> foundForbiddenKeywordAI(sqlQuery)
    [] v = "tagged" -> foundForbiddenKeywordTagged(sqlQuery)

ForbiddenMessage == "Query contains a forbidden write-operation keyword."

(***************************************************************************)
(* parseAndValidateResponse (sqlGenerator.js): the text extraction.        *)
(***************************************************************************)
QueryOpen == "<@query@>"
QueryClose == "</@query@>"
ExplanationOpen == "<@explanation@>"

\* while (sqlQuery.includes('<@query@>'))
\*   sqlQuery = sqlQuery.replace(/<@query@>/g, '').replace(/<\/@query@>/g, '')
RECURSIVE StripQueryTags(_)
StripQueryTags(s) ==
  IF Includes(s, QueryOpen)
  THEN StripQueryTags(RemoveAll(RemoveAll(s, QueryOpen), QueryClose))
  ELSE s

\* response.match(/<@query@>([\s\S]*?)<\/@query@>/) is not null
HasQueryPair(response) ==
  \E i \in 1..Len(response) : \E j \in (i + Len(QueryOpen))..Len(response) :
     MatchAt(response, QueryOpen, i) /\ MatchAt(response, QueryClose, j)

\* the value of sqlQuery tested by `if (!sqlQuery)`
ParsedQuery(response) ==
  IF HasQueryPair(response) THEN StripQueryTags(response) ELSE ""

\* response.match(/<@explanation@>([\s\S]*)/): group 1, the rest of the
\* response after the first explanation tag
ExplanationGroup(response) ==
  Drop(response, IndexOf(response, ExplanationOpen) + Len(ExplanationOpen) - 1)

\* explanationMatch && explanationMatch[1]
HasExplanation(response) ==
  /\ Includes(response, ExplanationOpen)
  /\ ExplanationGroup(response) # ""

MalformedMessage == "Invalid response format from LLM or empty query."

\* a parser that looks for the explanation before it looks for the query
ParseResponseExplanationFirst(response) ==
  LET sqlQuery == ParsedQuery(response) IN
  IF HasExplanation(response)
  THEN [kind |-> "error",
        message |-> "LLM explanation: " \o Trim(ExplanationGroup(response))]
  ELSE IF sqlQuery # "" THEN [kind |-> "query", sql |-> sqlQuery]
  ELSE [kind |-> "error", message |-> MalformedMessage]

\* outcome of the parse stage: the candidate for the validator, or the error
ParseResponse(response) ==
  LET sqlQuery == ParsedQuery(response) IN
  IF sqlQuery # "" THEN [kind |-> "query", sql |-> sqlQuery]
  ELSE IF HasExplanation(response)
  THEN [kind |-> "error",
        message |-> "LLM explanation: " \o Trim(ExplanationGroup(response))]
  ELSE [kind |-> "error", message |-> MalformedMessage]

(***************************************************************************)
(* cleanSqlResponse (sqlGeneratorAI.js).                                   *)
(***************************************************************************)
\* the backtick: the character of the code fence (a string literal of this
\* module cannot hold a backtick, so one otherwise unused character names it)
BT == "~"
Fence == BT \o BT \o BT

\* .replace(/^```sql\n?/i, '')
StripFenceSql(s) ==
  IF StartsWith(ToLowerCase(Take(s, 6)), Fence \o "sql")
  THEN IF MatchAt(s, "\n", 7) THEN Drop(s, 7) ELSE Drop(s, 6)
  ELSE s

\* .replace(/^```\n?/, '')
StripFenceOpen(s) ==
  IF StartsWith(s, Fence)
  THEN IF MatchAt(s, "\n", 4) THEN Drop(s, 4) ELSE Drop(s, 3)
  ELSE s

\* .replace(/\n?```$/, '')
StripFenceClose(s) ==
  IF EndsWith(s, Fence)
  THEN IF EndsWith(s, "\n" \o Fence) THEN Take(s, Len(s) - 4)
       ELSE Take(s, Len(s) - 3)
  ELSE s

\* String.prototype.split('\n')
RECURSIVE SplitLines(_)
SplitLines(s) ==
  LET i == IndexOf(s, "\n") IN
  IF i = 0 THEN <<s>> ELSE <<Take(s, i - 1)>> \o SplitLines(Drop(s, i))

\* Array.prototype.join('\n')
RECURSIVE JoinLines(_)
JoinLines(ls) ==
  IF Len(ls) = 0 THEN ""
  ELSE IF Len(ls) = 1 THEN ls[1]
  ELSE ls[1] \o "\n" \o JoinLines(Tail(ls))

\* the predicate of lines.filter
KeepLine(line) ==
  LET trimmed == Trim(line) IN
  /\ trimmed # ""
  /\ ~StartsWith(trimmed, "--")
  /\ ~StartsWith(ToLowerCase(trimmed), "here")
  /\ ~StartsWith(ToLowerCase(trimmed), "this query")

cleanSqlResponse(response) ==
  LET sql0 == Trim(response)
      sql1 == StripFenceClose(StripFenceOpen(StripFenceSql(sql0)))
      sql2 == Trim(sql1)
      lines == SplitLines(sql2)
      sqlLines == SelectSeq(lines, KeepLine)
  IN Trim(JoinLines(sqlLines))

(***************************************************************************)
(* generateSimpleQuery (sqlGeneratorSimple.js).                            *)
(***************************************************************************)
IsDigit(c) == c \in {"0", "1", "2", "3", "4", "5", "6", "7", "8", "9"}

\* end of the run of digits that starts at i (i - 1 if it is empty)
RECURSIVE DigitsEnd(_, _)
DigitsEnd(s, i) ==
  IF i <= Len(s) /\ IsDigit(CharAt(s, i)) THEN DigitsEnd(s, i + 1) ELSE i - 1

\* end of the run of white space that starts at i (i - 1 if it is empty)
RECURSIVE SpacesEnd(_, _)
SpacesEnd(s, i) ==
  IF i <= Len(s) /\ IsSpace(CharAt(s, i)) THEN SpacesEnd(s, i + 1) ELSE i - 1

\* /(\d+)\s*(day|days)/ matches at position i
DaysMatchAt(s, i) ==
  LET d == DigitsEnd(s, i)
      w == SpacesEnd(s, d + 1)
  IN d >= i /\ MatchAt(s, "day", w + 1)

\* lowerQuestion.match(/(\d+)\s*(day|days)/): group 1 of the leftmost match,
\* "" when there is no match (null)
DaysGroup(s) ==
  IF \E i \in 1..Len(s) : DaysMatchAt(s, i)
  THEN LET i == CHOOSE k \in 1..Len(s) :
                  DaysMatchAt(s, k) /\ \A j \in 1..(k - 1) : ~DaysMatchAt(s, j)
       IN SubSeq(s, i, DigitsEnd(s, i))
  ELSE ""

\* the line break and indentation inside the multi-line template literals
NL == "\n           "

OrdersByUserSql ==
  "SELECT u.name, u.email, COUNT(o.id) as order_count, SUM(o.total_amount) as total_spent"
  \o NL \o "FROM users u"
  \o NL \o "LEFT JOIN orders o ON u.id = o.user_id"
  \o NL \o "GROUP BY u.id, u.name, u.email"
  \o NL \o "ORDER BY order_count DESC"

TopProductsSql ==
  "SELECT p.name, p.category, COUNT(oi.id) as times_ordered, SUM(oi.quantity) as total_quantity"
  \o NL \o "FROM products p"
  \o NL \o "JOIN order_items oi ON p.id = oi.product_id"
  \o NL \o "GROUP BY p.id, p.name, p.category"
  \o NL \o "ORDER BY times_ordered DESC"
  \o NL \o "LIMIT 10"

RecentOrdersSql(limit) ==
  "SELECT * FROM orders"
  \o NL \o "WHERE created_at >= NOW() - INTERVAL '" \o limit \o " days'"
  \o NL \o "ORDER BY created_at DESC"
  \o NL \o "LIMIT 100"

ProductCategorySql ==
  "SELECT category, COUNT(*) as product_count, AVG(price) as avg_price"
  \o NL \o "FROM products"
  \o NL \o "GROUP BY category"
  \o NL \o "ORDER BY product_count DESC"

\* tables.map(t => t.name).join(', ')
RECURSIVE JoinNames(_)
JoinNames(ts) ==
  IF Len(ts) = 0 THEN ""
  ELSE IF Len(ts) = 1 THEN ts[1]
  ELSE ts[1] \o ", " \o JoinNames(Tail(ts))

NotUnderstoodMessage(tables) ==
  "I couldn't understand your question. Available tables: "
  \o JoinNames(tables) \o ". "
  \o "Try queries like: \"Show all users\", \"Count products\", \"Total revenue\", \"Top products\", \"Orders by user\", \"Recent orders\""

\* the users listing with the row limit put before the status filter
UsersListSqlLimitFirst(lowerQuestion) ==
  "SELECT * FROM users"
  \o " LIMIT 100"
  \o (IF Includes(lowerQuestion, "active") THEN " WHERE status = 'active'"
      ELSE IF Includes(lowerQuestion, "inactive")
      THEN " WHERE status = 'inactive'"
      ELSE "")

\* the branch of generateSimpleQuery for a question that mentions users
UsersListSql(lowerQuestion) ==
  "SELECT * FROM users"
  \o (IF Includes(lowerQuestion, "active") THEN " WHERE status = 'active'"
      ELSE IF Includes(lowerQuestion, "inactive")
      THEN " WHERE status = 'inactive'"
      ELSE "")
  \o " LIMIT 100"

\* the revenue total taken over the orders of every status
TotalRevenueSqlAllOrders ==
  "SELECT SUM(total_amount) as total_revenue FROM orders"

\* the branch of generateSimpleQuery for total revenue / total sales
TotalRevenueSql ==
  "SELECT SUM(total_amount) as total_revenue FROM orders WHERE status = 'completed'"

\* [kind |-> "query", sql |-> ...] when a pattern matches, the thrown error
\* otherwise
generateSimpleQuery(question, tables) ==
  LET lowerQuestion == ToLowerCase(question)
      has(w) == Includes(lowerQuestion, w)
      Q(sql) == [kind |-> "query", sql |-> sql]
  IN
  IF has("count") /\ has("users")
  THEN IF has("active")
       THEN Q("SELECT COUNT(*) as total FROM users WHERE status = 'active'")
       ELSE Q("SELECT COUNT(*) as total FROM users")
  ELSE IF has("count") /\ has("products")
  THEN Q("SELECT COUNT(*) as total FROM products")
  ELSE IF has("count") /\ has("orders")
  THEN IF has("completed")
       THEN Q("SELECT COUNT(*) as total FROM orders WHERE status = 'completed'")
       ELSE Q("SELECT COUNT(*) as total FROM orders")
  ELSE IF has("total revenue") \/ has("total sales")
  THEN Q(TotalRevenueSql)
  ELSE IF has("users")
  THEN Q(UsersListSql(lowerQuestion))
  ELSE IF has("products")
  THEN Q("SELECT * FROM products"
         \o (IF has("electronics") THEN " WHERE category = 'Electronics'"
             ELSE IF has("furniture") THEN " WHERE category = 'Furniture'"
             ELSE IF has("stationery") THEN " WHERE category = 'Stationery'"
             ELSE "")
         \o " LIMIT 100")
  ELSE IF has("orders")
  THEN Q("SELECT * FROM orders"
         \o (IF has("completed") THEN " WHERE status = 'completed'"
             ELSE IF has("pending") THEN " WHERE status = 'pending'"
             ELSE IF has("cancelled") THEN " WHERE status = 'cancelled'"
             ELSE "")
         \o " LIMIT 100")
  ELSE IF has("orders by user") \/ has("user orders")
  THEN Q(OrdersByUserSql)
  ELSE IF has("top products") \/ has("popular products")
  THEN Q(TopProductsSql)
  ELSE IF has("recent orders")
  THEN LET days == DaysGroup(lowerQuestion)
           limit == IF days # "" THEN days ELSE "30"
       IN Q(RecentOrdersSql(limit))
  ELSE IF has("product") /\ has("category")
  THEN Q(ProductCategorySql)
  ELSE [kind |-> "error", message |-> NotUnderstoodMessage(tables)]

(***************************************************************************)
(* Inputs from the environment.                                            *)
(***************************************************************************)
\* rows of the catalog query, grouped per table (ORDER BY table_name)
Catalog == <<"order_items", "orders", "products", "users">>

\* error messages of the database on EXPLAIN
DbErrors == {"syntax error at or near \"1\"", "relation \"t\" does not exist"}

ConnectError == "connect ECONNREFUSED"
CatalogError == "permission denied for information_schema"
EmbeddingError == "embedding request failed"
LookupError == "vector index unavailable"
GenerationError == "model request failed"

Variants == {"simple", "ai", "tagged"}

\* questions posed concurrently in Spec: one that matches a pattern and one
\* that matches none (the model-backed pipelines hand the question to the
\* model and do not branch on it)
Questions(v) ==
  IF v = "simple" THEN {"Count all products", "Tell me a joke"}
  ELSE {"Count all products"}

\* answers of the database to EXPLAIN in Spec
ExplainReplies == {"ok", "relation \"t\" does not exist"}

\* model outputs of the fenced-code pipeline in Spec
AIResponses ==
  {Fence \o "sql\nSELECT 1\n" \o Fence, "Here is the query you asked for"}

\* model outputs of the tagged pipeline in Spec
TaggedResponsesSmall ==
  {"<@query@>SELECT 1</@query@>", "<@explanation@>missing table X"}

(***************************************************************************)
(* State.  req[r] is the activation of generateSqlFromQuestion for request *)
(* r: the module it runs in (variant), the await it is suspended at (pc),  *)
(* its locals, and a record of what it did to its collaborators.           *)
(* checkedOut is the number of clients the shared dbPool has handed out    *)
(* and not yet got back.  nodeEnv is process.env.NODE_ENV.  run is the     *)
(* activation of runWithConcurrency in the query-log sync job.             *)
(***************************************************************************)
VARIABLES req, checkedOut, nodeEnv, run

vars == <<req, checkedOut, nodeEnv, run>>

NodeEnvs == {"development", "production"}

\* req.body.question before the route has read it
NoBody == [type |-> "none"]

NoOutcome == [kind |-> "none"]

\* topK of tableIndex.query and of queryIndex.query
TableTopK == 5
QueryTopK == 3
NoResult == [pending |-> TRUE]

Idle ==
  [variant |-> "none", pc |-> "idle", question |-> "", tables |-> <<>>,
   response |-> "", sqlQuery |-> "",
   conns |-> <<>>,          \* per client checked out: times it was released
   lookT |-> "none",        \* tableIndex.query of retrieveContext
   lookQ |-> "none",        \* queryIndex.query of retrieveContext
   topK |-> [T |-> 0, Q |-> 0],  \* topK of the two index queries issued
   llmCalls |-> 0,          \* model calls issued
   vcalls |-> 0,            \* invocations of validateSqlSyntax
   varg |-> "",             \* the string given to validateSqlSyntax
   found |-> "",            \* foundForbiddenKeyword
   vconnects |-> 0,         \* dbPool.connect() calls of validateSqlSyntax
   explains |-> 0,          \* EXPLAIN statements issued
   dbReply |-> "none",      \* what the database answered to EXPLAIN
   validationResult |-> NoResult,
   outcome |-> NoOutcome,
   stages |-> <<>>,         \* the stages of the pipeline, as they are invoked
   body |-> NoBody,         \* req.body.question of the HTTP request
   handler |-> "none",      \* the route handler's activation
   responses |-> <<>>]      \* the HTTP responses sent for the request

\* number of clients request record q holds
Held(q) == Cardinality({k \in 1..Len(q.conns) : q.conns[k] = 0})

\* throw new Error(message), rethrown by the catch of generateSqlFromQuestion
Throw(q, message) ==
  [q EXCEPT !.pc = "done",
            !.outcome = [kind |-> "thrown", message |-> message]]

\* dbPool.connect() resolved
Acquire(q) == [q EXCEPT !.conns = Append(@, 0)]

\* client.release() of the client checked out last
Release(q) == [q EXCEPT !.conns[Len(q.conns)] = @ + 1]

\* runWithConcurrency has not been called
RunIdle ==
  [phase |-> "idle", n |-> 0, concurrency |-> 0, index |-> 0,
   status |-> <<>>,     \* per task: "waiting", "running", "resolved", "rejected"
   started |-> <<>>,    \* per task: times it was called
   results |-> <<>>,    \* the results array
   worker |-> <<>>,     \* per worker: the index it awaits, -1 when it returned
   returned |-> <<>>]   \* the value the returned promise resolved with

\* a stage of the pipeline is invoked
Invoke(q, stage) == [q EXCEPT !.stages = Append(@, stage)]

\* the generators are called directly; none of them reads NODE_ENV
Init ==
  /\ req = [r \in Reqs |-> Idle]
  /\ checkedOut = 0
  /\ nodeEnv = "production"
  /\ run = RunIdle

(***************************************************************************)
(* generateSqlFromQuestion is called (sqlGeneratorSimple.js 200-210,       *)
(* sqlGeneratorAI.js 414-424, sqlGenerator.js 678-688).                    *)
(***************************************************************************)
StartRequest(r, v, question) ==
  /\ req[r].pc = "idle"
  /\ UNCHANGED <<nodeEnv, run>>
  /\ req' = [req EXCEPT ![r] =
       [Invoke(@, IF v = "tagged" THEN "context" ELSE "schema") EXCEPT
          !.variant = v, !.question = question,
          !.pc = IF v = "tagged" THEN "embed" ELSE "schemaConnect"]]
  /\ UNCHANGED checkedOut

(***************************************************************************)
(* getTableSchema: await dbPool.connect()                                  *)
(***************************************************************************)
SchemaConnect(r, ok) ==
  /\ req[r].pc = "schemaConnect"
  /\ UNCHANGED <<nodeEnv, run>>
  /\ IF ok
     THEN /\ req' = [req EXCEPT ![r] = [Acquire(@) EXCEPT !.pc = "schemaQuery"]]
          /\ checkedOut' = checkedOut + 1
     ELSE /\ req' = [req EXCEPT ![r] = Throw(@, ConnectError)]
          /\ UNCHANGED checkedOut

\* getTableSchema without its finally block: the client is released only
\* when the catalog query succeeds
SchemaQueryNoFinally(r, ok) ==
  /\ req[r].pc = "schemaQuery"
  /\ UNCHANGED <<nodeEnv, run>>
  /\ IF ok
     THEN /\ req' = [req EXCEPT ![r] =
               [Release(@) EXCEPT
                  !.tables = Catalog,
                  !.pc = IF req[r].variant = "simple" THEN "match" ELSE "llm",
                  !.stages = IF req[r].variant = "simple" THEN @
                             ELSE Append(@, "model"),
                  !.llmCalls = IF req[r].variant = "simple" THEN @ ELSE @ + 1]]
          /\ checkedOut' = checkedOut - 1
     ELSE /\ req' = [req EXCEPT ![r] = Throw(@, CatalogError)]
          /\ UNCHANGED checkedOut

\* getTableSchema returning with its client still checked out
SchemaQueryKeepsClient(r, ok) ==
  /\ req[r].pc = "schemaQuery"
  /\ UNCHANGED <<nodeEnv, run>>
  /\ IF ok
     THEN /\ req' = [req EXCEPT ![r] =
               [@ EXCEPT
                  !.tables = Catalog,
                  !.pc = IF req[r].variant = "simple" THEN "match" ELSE "llm",
                  !.stages = IF req[r].variant = "simple" THEN @
                             ELSE Append(@, "model"),
                  !.llmCalls = IF req[r].variant = "simple" THEN @ ELSE @ + 1]]
          /\ UNCHANGED checkedOut
     ELSE /\ req' = [req EXCEPT ![r] = Throw(Release(@), CatalogError)]
          /\ checkedOut' = checkedOut - 1

(***************************************************************************)
(* getTableSchema: await client.query(catalog) settles; the finally block  *)
(* releases the client; the tables are returned or the error propagates.   *)
(* In sqlGeneratorAI.js the prompt is built and the model call is issued   *)
(* in the same synchronous run.                                            *)
(***************************************************************************)
SchemaQuery(r, ok) ==
  /\ req[r].pc = "schemaQuery"
  /\ UNCHANGED <<nodeEnv, run>>
  /\ checkedOut' = checkedOut - 1
  /\ IF ok
     THEN req' = [req EXCEPT ![r] =
            [Release(@) EXCEPT
               !.tables = Catalog,
               !.pc = IF req[r].variant = "simple" THEN "match" ELSE "llm",
               !.stages = IF req[r].variant = "simple" THEN @
                          ELSE Append(@, "model"),
               !.llmCalls = IF req[r].variant = "simple" THEN @ ELSE @ + 1]]
     ELSE req' = [req EXCEPT ![r] = Throw(Release(@), CatalogError)]

\* generateSimpleQuery with its sql variable declared once for the module
\* instead of per call: a later call appends to what an earlier call left
MatchSharedSql(r) ==
  /\ req[r].pc = "match"
  /\ UNCHANGED <<nodeEnv, run>>
  /\ LET res == generateSimpleQuery(req[r].question, req[r].tables)
         q1 == Invoke(req[r], "match")
         earlier == {o \in Reqs \ {r} : req[o].sqlQuery # ""}
         left == IF earlier = {} THEN ""
                 ELSE req[CHOOSE o \in earlier : TRUE].sqlQuery
     IN req' = [req EXCEPT ![r] =
          IF res.kind = "query"
          THEN [q1 EXCEPT !.sqlQuery = left \o res.sql, !.pc = "validate"]
          ELSE Throw(q1, res.message)]
  /\ UNCHANGED checkedOut

\* generateSimpleQuery putting a row limit on every statement that has none
MatchAppendsLimit(r) ==
  /\ req[r].pc = "match"
  /\ UNCHANGED <<nodeEnv, run>>
  /\ LET res == generateSimpleQuery(req[r].question, req[r].tables)
         q1 == Invoke(req[r], "match")
     IN req' = [req EXCEPT ![r] =
          IF res.kind = "query"
          THEN [q1 EXCEPT !.sqlQuery = IF Includes(res.sql, "LIMIT") THEN res.sql
                                       ELSE res.sql \o " LIMIT 100",
                          !.pc = "validate"]
          ELSE Throw(q1, res.message)]
  /\ UNCHANGED checkedOut

\* generateSimpleQuery recording the question in a comment of the statement
MatchEchoesQuestion(r) ==
  /\ req[r].pc = "match"
  /\ UNCHANGED <<nodeEnv, run>>
  /\ LET res == generateSimpleQuery(req[r].question, req[r].tables)
         q1 == Invoke(req[r], "match")
     IN req' = [req EXCEPT ![r] =
          IF res.kind = "query"
          THEN [q1 EXCEPT !.sqlQuery = res.sql \o " /* " \o req[r].question
                                         \o " */",
                          !.pc = "validate"]
          ELSE Throw(q1, res.message)]
  /\ UNCHANGED checkedOut

\* generateSimpleQuery falling back to a listing of the first table when no
\* pattern matches
MatchWithDefault(r) ==
  /\ req[r].pc = "match"
  /\ UNCHANGED <<nodeEnv, run>>
  /\ LET res == generateSimpleQuery(req[r].question, req[r].tables)
         q1 == Invoke(req[r], "match")
     IN req' = [req EXCEPT ![r] =
          [q1 EXCEPT !.sqlQuery = IF res.kind = "query" THEN res.sql
                                  ELSE "SELECT * FROM " \o req[r].tables[1]
                                         \o " LIMIT 100",
                     !.pc = "validate"]]
  /\ UNCHANGED checkedOut

(***************************************************************************)
(* sqlGeneratorSimple.js: generateSimpleQuery(question, tables)            *)
(***************************************************************************)
Match(r) ==
  /\ req[r].pc = "match"
  /\ UNCHANGED <<nodeEnv, run>>
  /\ LET res == generateSimpleQuery(req[r].question, req[r].tables)
         q1 == Invoke(req[r], "match")
     IN req' = [req EXCEPT ![r] =
          IF res.kind = "query"
          THEN [q1 EXCEPT !.sqlQuery = res.sql, !.pc = "validate"]
          ELSE Throw(q1, res.message)]
  /\ UNCHANGED checkedOut

(***************************************************************************)
(* sqlGenerator.js retrieveContext: embedQuery, then the two index queries *)
(* under Promise.all.                                                      *)
(***************************************************************************)
Embed(r, ok) ==
  /\ req[r].pc = "embed"
  /\ UNCHANGED <<nodeEnv, run>>
  /\ req' = [req EXCEPT ![r] =
       IF ok
       THEN [@ EXCEPT !.pc = "lookups", !.lookT = "pending", !.lookQ = "pending",
                      !.topK = [T |-> TableTopK, Q |-> QueryTopK]]
       ELSE Throw(@, EmbeddingError)]
  /\ UNCHANGED checkedOut

\* retrieveContext awaiting the index queries with Promise.race: the first
\* one to succeed lets the prompt be built and the model be called
LookupFirstWins(r, which, ok) ==
  /\ req[r].pc = "lookups"
  /\ UNCHANGED <<nodeEnv, run>>
  /\ which \in {"T", "Q"}
  /\ (IF which = "T" THEN req[r].lookT ELSE req[r].lookQ) = "pending"
  /\ LET st == IF ok THEN "ok" ELSE "failed"
         q1 == IF which = "T" THEN [req[r] EXCEPT !.lookT = st]
                               ELSE [req[r] EXCEPT !.lookQ = st]
     IN req' = [req EXCEPT ![r] =
          IF ~ok THEN Throw(q1, LookupError)
          ELSE [Invoke(q1, "model") EXCEPT !.pc = "llm", !.llmCalls = @ + 1]]
  /\ UNCHANGED checkedOut

\* one of the two index queries settles; Promise.all rejects with the first
\* failure and resolves when both have succeeded, upon which the prompt is
\* built and llm.invoke is issued
Lookup(r, which, ok) ==
  /\ req[r].pc = "lookups"
  /\ UNCHANGED <<nodeEnv, run>>
  /\ which \in {"T", "Q"}
  /\ (IF which = "T" THEN req[r].lookT ELSE req[r].lookQ) = "pending"
  /\ LET st == IF ok THEN "ok" ELSE "failed"
         q1 == IF which = "T" THEN [req[r] EXCEPT !.lookT = st]
                               ELSE [req[r] EXCEPT !.lookQ = st]
     IN req' = [req EXCEPT ![r] =
          IF ~ok THEN Throw(q1, LookupError)
          ELSE IF q1.lookT = "ok" /\ q1.lookQ = "ok"
          THEN [Invoke(q1, "model") EXCEPT !.pc = "llm", !.llmCalls = @ + 1]
          ELSE q1]
  /\ UNCHANGED checkedOut

(***************************************************************************)
(* The model call settles (model.generateContent / llm.invoke).            *)
(***************************************************************************)
\* a caller that issues the model call a second time when the first fails
LlmFailRetry(r) ==
  /\ req[r].pc = "llm"
  /\ UNCHANGED <<nodeEnv, run>>
  /\ req' = [req EXCEPT ![r] =
       IF req[r].llmCalls < 2
       THEN [Invoke(@, "model") EXCEPT !.llmCalls = @ + 1]
       ELSE Throw(@, GenerationError)]
  /\ UNCHANGED checkedOut

LlmFail(r) ==
  /\ req[r].pc = "llm"
  /\ UNCHANGED <<nodeEnv, run>>
  /\ req' = [req EXCEPT ![r] = Throw(@, GenerationError)]
  /\ UNCHANGED checkedOut

LlmReturn(r, response) ==
  /\ req[r].pc = "llm"
  /\ UNCHANGED <<nodeEnv, run>>
  /\ req' = [req EXCEPT ![r] = [@ EXCEPT !.response = response, !.pc = "parse"]]
  /\ UNCHANGED checkedOut

(***************************************************************************)
(* sqlGeneratorAI.js 443: cleanSqlResponse(response.text());               *)
(* sqlGenerator.js 622-658: the parsing part of parseAndValidateResponse.  *)
(***************************************************************************)
Parse(r) ==
  /\ req[r].pc = "parse"
  /\ UNCHANGED <<nodeEnv, run>>
  /\ req' = [req EXCEPT ![r] =
       IF req[r].variant = "ai"
       THEN [Invoke(@, "parse") EXCEPT
               !.sqlQuery = cleanSqlResponse(req[r].response),
               !.pc = "validate"]
       ELSE LET res == ParseResponse(req[r].response) IN
            IF res.kind = "query"
            THEN [Invoke(@, "parse") EXCEPT
                    !.sqlQuery = res.sql, !.pc = "validate"]
            ELSE Throw(Invoke(@, "parse"), res.message)]
  /\ UNCHANGED checkedOut

\* a validator that checks out its client before it screens the statement
ScreenAfterConnect(r) ==
  /\ req[r].pc = "validate"
  /\ UNCHANGED <<nodeEnv, run>>
  /\ req' = [req EXCEPT ![r] =
       [Invoke(@, "validate") EXCEPT
                 !.vcalls = @ + 1, !.varg = req[r].sqlQuery,
                 !.found = foundForbiddenKeyword(req[r].variant, req[r].sqlQuery),
                 !.vconnects = @ + 1, !.pc = "vConnect"]]
  /\ UNCHANGED checkedOut

(***************************************************************************)
(* validateSqlSyntax(sqlQuery), lines 47-81 / 297-333 / 493-527: the       *)
(* keyword screen, and on a clean statement the call of dbPool.connect().  *)
(***************************************************************************)
Screen(r) ==
  /\ req[r].pc = "validate"
  /\ UNCHANGED <<nodeEnv, run>>
  /\ LET foundForbidden == foundForbiddenKeyword(req[r].variant, req[r].sqlQuery)
         q1 == [Invoke(req[r], "validate") EXCEPT
                  !.vcalls = @ + 1, !.varg = req[r].sqlQuery,
                  !.found = foundForbidden]
     IN req' = [req EXCEPT ![r] =
          IF foundForbidden # ""
          THEN [q1 EXCEPT !.validationResult =
                            [isValid |-> FALSE, error |-> ForbiddenMessage],
                          !.pc = "vReturn"]
          ELSE [q1 EXCEPT !.vconnects = @ + 1, !.pc = "vConnect"]]
  /\ UNCHANGED checkedOut

(***************************************************************************)
(* validateSqlSyntax: await dbPool.connect() settles; on success the       *)
(* EXPLAIN statement is issued on the client.                              *)
(***************************************************************************)
VConnect(r, ok) ==
  /\ req[r].pc = "vConnect"
  /\ UNCHANGED <<nodeEnv, run>>
  /\ IF ok
     THEN /\ req' = [req EXCEPT ![r] =
               [Acquire(@) EXCEPT !.explains = @ + 1, !.pc = "vExplain"]]
          /\ checkedOut' = checkedOut + 1
     ELSE /\ req' = [req EXCEPT ![r] = Throw(@, ConnectError)]
          /\ UNCHANGED checkedOut

\* a validator that hides the database's message behind a fixed one
VExplainGenericError(r, reply) ==
  /\ req[r].pc = "vExplain"
  /\ UNCHANGED <<nodeEnv, run>>
  /\ checkedOut' = checkedOut - 1
  /\ req' = [req EXCEPT ![r] =
       [Release(@) EXCEPT
          !.dbReply = reply,
          !.validationResult =
             IF reply = "ok" THEN [isValid |-> TRUE]
             ELSE [isValid |-> FALSE, error |-> "SQL validation failed"],
          !.pc = "vReturn"]]

(***************************************************************************)
(* validateSqlSyntax: await client.query(`EXPLAIN ${sqlQuery}`) settles    *)
(* with reply "ok" or with an error message; try / catch / finally.        *)
(***************************************************************************)
VExplain(r, reply) ==
  /\ req[r].pc = "vExplain"
  /\ UNCHANGED <<nodeEnv, run>>
  /\ checkedOut' = checkedOut - 1
  /\ req' = [req EXCEPT ![r] =
       [Release(@) EXCEPT
          !.dbReply = reply,
          !.validationResult =
             IF reply = "ok" THEN [isValid |-> TRUE]
             ELSE [isValid |-> FALSE, error |-> reply],
          !.pc = "vReturn"]]

\* a caller that returns the candidate whatever the validator said
FinishUnchecked(r) ==
  /\ req[r].pc = "vReturn"
  /\ UNCHANGED <<nodeEnv, run>>
  /\ req' = [req EXCEPT ![r] =
       [@ EXCEPT !.pc = "done",
                 !.outcome = [kind |-> "returned", sql |-> req[r].sqlQuery]]]
  /\ UNCHANGED checkedOut

(***************************************************************************)
(* The caller of validateSqlSyntax: if (!validationResult.isValid) throw,  *)
(* else return sqlQuery (lines 226-238 / 451-463 / 660-673 and 714-723).   *)
(***************************************************************************)
Finish(r) ==
  /\ req[r].pc = "vReturn"
  /\ UNCHANGED <<nodeEnv, run>>
  /\ req' = [req EXCEPT ![r] =
       IF ~req[r].validationResult.isValid
       THEN Throw(@, "Generated SQL is invalid: "
                       \o req[r].validationResult.error)
       ELSE [@ EXCEPT !.pc = "done",
                      !.outcome = [kind |-> "returned",
                                   sql |-> req[r].sqlQuery]]]
  /\ UNCHANGED checkedOut

(***************************************************************************)
(* Spec: concurrent requests through the three pipelines.                  *)
(***************************************************************************)
Next ==
  \/ \E r \in Reqs, v \in Variants :
       \E q \in Questions(v) : StartRequest(r, v, q)
  \/ \E r \in Reqs, ok \in BOOLEAN : SchemaConnect(r, ok)
  \/ \E r \in Reqs, ok \in BOOLEAN : SchemaQuery(r, ok)
  \/ \E r \in Reqs : Match(r)
  \/ \E r \in Reqs, ok \in BOOLEAN : Embed(r, ok)
  \/ \E r \in Reqs, which \in {"T", "Q"}, ok \in BOOLEAN : Lookup(r, which, ok)
  \/ \E r \in Reqs : LlmFail(r)
  \/ \E r \in Reqs :
       \E response \in (IF req[r].variant = "ai" THEN AIResponses
                        ELSE TaggedResponsesSmall) : LlmReturn(r, response)
  \/ \E r \in Reqs : Parse(r)
  \/ \E r \in Reqs : Screen(r)
  \/ \E r \in Reqs, ok \in BOOLEAN : VConnect(r, ok)
  \/ \E r \in Reqs, reply \in ExplainReplies : VExplain(r, reply)
  \/ \E r \in Reqs : Finish(r)

Spec == Init /\ [][Next]_vars

(***************************************************************************)
(* SpecValidate: each copy of validateSqlSyntax applied to a statement.    *)
(***************************************************************************)
StatementLexemes ==
  <<"SELECT * FROM updates", "UPDATE users SET x=1", "SELECT created_at",
    " ", "\n", "drop", "Delete">>

RECURSIVE Concat(_, _)
Concat(lexemes, idx) ==
  IF Len(idx) = 0 THEN "" ELSE lexemes[idx[1]] \o Concat(lexemes, Tail(idx))

\* the concatenations of 1..n lexemes
Texts(lexemes, n) ==
  {Concat(lexemes, idx) :
     idx \in UNION {[1..k -> 1..Len(lexemes)] : k \in 1..n}}

Statements == Texts(StatementLexemes, MaxWords)

InitValidate ==
  /\ \E v \in Variants, sqlQuery \in Statements :
       req = [r \in Reqs |->
                IF r = 1
                THEN [Idle EXCEPT !.variant = v, !.sqlQuery = sqlQuery,
                                  !.pc = "validate"]
                ELSE Idle]
  /\ checkedOut = 0
  /\ nodeEnv = "production"
  /\ run = RunIdle

NextValidate ==
  \/ Screen(1)
  \/ \E ok \in BOOLEAN : VConnect(1, ok)
  \/ \E reply \in {"ok"} \cup DbErrors : VExplain(1, reply)
  \/ Finish(1)

SpecValidate == InitValidate /\ [][NextValidate]_vars

(***************************************************************************)
(* SpecParse: one request of the tagged pipeline from the moment its model *)
(* call is in flight, over a large set of model outputs.                   *)
(***************************************************************************)
TagLexemes ==
  <<"<@query@>", "</@query@>", "<@explanation@>", "</@explanation@>",
    "SELECT 1", "missing table X", "UPDATE users SET x=1", " ",
    "<@que", "ry@>">>

\* the tagged response of the specification's round-trip property, with the
\* closing tag as the specification spells it and as the parser spells it
SpecExampleAsWritten ==
  "<@query@>SELECT 1<@/query@><@explanation@></@explanation@>"
SpecExample ==
  "<@query@>SELECT 1</@query@><@explanation@></@explanation@>"
ExplanationExample == "<@explanation@>missing table X</@explanation@>"

TaggedResponses ==
  Texts(TagLexemes, MaxParts)
    \cup {SpecExampleAsWritten, SpecExample, ExplanationExample}

InitParse ==
  /\ req = [r \in Reqs |->
              IF r = 1
              THEN [Idle EXCEPT !.variant = "tagged",
                                !.question = "Count all products",
                                !.lookT = "ok", !.lookQ = "ok",
                                !.topK = [T |-> TableTopK, Q |-> QueryTopK],
                                !.llmCalls = 1, !.pc = "llm",
                                !.stages = <<"context", "model">>]
              ELSE Idle]
  /\ checkedOut = 0
  /\ nodeEnv = "production"
  /\ run = RunIdle

NextParse ==
  \/ \E response \in TaggedResponses : LlmReturn(1, response)
  \/ Parse(1)
  \/ Screen(1)
  \/ \E ok \in BOOLEAN : VConnect(1, ok)
  \/ \E reply \in {"ok"} \cup DbErrors : VExplain(1, reply)
  \/ Finish(1)

SpecParse == InitParse /\ [][NextParse]_vars

(***************************************************************************)
(* routes/api.js: POST /generate-sql, wired to sqlGeneratorAI.js, and the  *)
(* error-handling middleware of index.js.  A value of req.body.question is *)
(* a record [type, value] after express.json() has parsed the body.        *)
(***************************************************************************)
Undefined == [type |-> "undefined"]
Str(s) == [type |-> "string", value |-> s]
Num(n) == [type |-> "number", value |-> n]
Obj == [type |-> "object"]

\* the values of the question field posted in SpecRoute
QuestionValues == {Undefined, Str(""), Str("Count all products"), Num(42), Obj}

\* !question is false
Truthy(j) ==
  CASE j.type = "string" -> j.value # ""
    [] j.type = "number" -> j.value # 0
    [] j.type = "object" -> TRUE
    [] OTHER -> FALSE

QuestionRequired == "Question is required."
FailedToGenerate == "Failed to generate SQL query."
NotAFunction == "question.substring is not a function"

\* res.status(status).json(body)
Respond(q, status, body) ==
  [q EXCEPT !.responses = Append(@, [status |-> status, body |-> body])]

\* a route that hands whatever it was sent to the generator
RouteReceiveUnchecked(r, question) ==
  /\ req[r].pc = "idle"
  /\ UNCHANGED <<nodeEnv, run>>
  /\ req[r].handler = "none"
  /\ LET q1 == [req[r] EXCEPT !.body = question] IN
     req' = [req EXCEPT ![r] =
       IF Truthy(question) /\ question.type # "string"
       THEN [q1 EXCEPT !.handler = "rejected"]
       ELSE [Invoke(q1, "schema") EXCEPT
               !.handler = "awaiting", !.variant = "ai",
               !.question = IF question.type = "string"
                            THEN question.value ELSE "",
               !.pc = "schemaConnect"]]
  /\ UNCHANGED checkedOut

(***************************************************************************)
(* The handler of POST /generate-sql runs up to its first await: it reads  *)
(* question, logs question.substring(0, 100) when question is truthy,      *)
(* answers 400 when it is falsy, and otherwise calls                        *)
(* generateSqlFromQuestion, which runs up to dbPool.connect().             *)
(***************************************************************************)
RouteReceive(r, question) ==
  /\ req[r].pc = "idle"
  /\ UNCHANGED <<nodeEnv, run>>
  /\ req[r].handler = "none"
  /\ LET q1 == [req[r] EXCEPT !.body = question] IN
     req' = [req EXCEPT ![r] =
       IF Truthy(question) /\ question.type # "string"
       THEN [q1 EXCEPT !.handler = "rejected"]
       ELSE IF ~Truthy(question)
       THEN [Respond(q1, 400, [error |-> QuestionRequired]) EXCEPT
               !.handler = "returned"]
       ELSE [Invoke(q1, "schema") EXCEPT
               !.handler = "awaiting", !.variant = "ai",
               !.question = question.value, !.pc = "schemaConnect"]]
  /\ UNCHANGED checkedOut

\* a route that answers a failed generation like a successful one
RouteRespondAlwaysOk(r) ==
  /\ req[r].pc = "done"
  /\ UNCHANGED <<nodeEnv, run>>
  /\ req[r].handler = "awaiting"
  /\ req' = [req EXCEPT ![r] =
       [(IF req[r].outcome.kind = "returned"
         THEN Respond(@, 200, [sql |-> req[r].outcome.sql])
         ELSE Respond(@, 200, [sql |-> req[r].sqlQuery]))
        EXCEPT !.handler = "returned"]]
  /\ UNCHANGED checkedOut

(***************************************************************************)
(* await generateSqlFromQuestion(question) settles: res.json({sql}) or the *)
(* catch block's res.status(500).json(...).                                *)
(***************************************************************************)
RouteRespond(r) ==
  /\ req[r].pc = "done"
  /\ UNCHANGED <<nodeEnv, run>>
  /\ req[r].handler = "awaiting"
  /\ req' = [req EXCEPT ![r] =
       [(IF req[r].outcome.kind = "returned"
         THEN Respond(@, 200, [sql |-> req[r].outcome.sql])
         ELSE Respond(@, 500, [error |-> FailedToGenerate]))
        EXCEPT !.handler = "returned"]]
  /\ UNCHANGED checkedOut

(***************************************************************************)
(* The promise of the async handler is rejected (the TypeError of          *)
(* question.substring, thrown outside the handler's try).  A router that   *)
(* observes the promise forwards the error to errorLogger and the global   *)
(* error handler of index.js; a router that ignores the returned promise   *)
(* leaves the request without a response.  Which of the two the installed  *)
(* express does is not fixed by the sources.                               *)
(***************************************************************************)
Rejection(r, forwarded) ==
  /\ req[r].pc = "idle"
  /\ UNCHANGED <<nodeEnv, run>>
  /\ req[r].handler = "rejected"
  /\ req' = [req EXCEPT ![r] =
       IF forwarded
       THEN [Respond(@, 500,
               [error |-> "Internal server error",
                message |-> IF nodeEnv = "development" THEN NotAFunction
                            ELSE "Something went wrong"])
             EXCEPT !.handler = "returned"]
       ELSE [@ EXCEPT !.handler = "abandoned"]]
  /\ UNCHANGED checkedOut

\* model outputs of the fenced-code pipeline in SpecRoute
RouteResponses == AIResponses \cup {"I cannot answer that"}

InitRoute ==
  /\ req = [r \in Reqs |-> Idle]
  /\ checkedOut = 0
  /\ nodeEnv \in NodeEnvs
  /\ run = RunIdle

NextRoute ==
  \/ \E r \in Reqs, question \in QuestionValues : RouteReceive(r, question)
  \/ \E r \in Reqs, ok \in BOOLEAN : SchemaConnect(r, ok)
  \/ \E r \in Reqs, ok \in BOOLEAN : SchemaQuery(r, ok)
  \/ \E r \in Reqs : LlmFail(r)
  \/ \E r \in Reqs, response \in RouteResponses : LlmReturn(r, response)
  \/ \E r \in Reqs : Parse(r)
  \/ \E r \in Reqs : Screen(r)
  \/ \E r \in Reqs, ok \in BOOLEAN : VConnect(r, ok)
  \/ \E r \in Reqs, reply \in ExplainReplies : VExplain(r, reply)
  \/ \E r \in Reqs : Finish(r)
  \/ \E r \in Reqs : RouteRespond(r)
  \/ \E r \in Reqs, forwarded \in BOOLEAN : Rejection(r, forwarded)

SpecRoute == InitRoute /\ [][NextRoute]_vars

(***************************************************************************)
(* SpecSimple: one request of the pattern-matching path from the moment    *)
(* getTableSchema has returned, over a large set of questions.             *)
(***************************************************************************)
QuestionPhrases ==
  <<"Count all products", "Show active users", "Show inactive users",
    "Total revenue", "Top products", "Popular products", "Orders by user",
    "User orders", "Recent orders", " in last 7 days", "Show ", "users",
    "product ", "category", "joke">>

SimpleQuestions == Texts(QuestionPhrases, MaxPhrases)

InitSimple ==
  /\ \E question \in SimpleQuestions :
       req = [r \in Reqs |->
                IF r = 1
                THEN [Idle EXCEPT !.variant = "simple", !.question = question,
                                  !.tables = Catalog, !.conns = <<1>>,
                                  !.stages = <<"schema">>, !.pc = "match"]
                ELSE Idle]
  /\ checkedOut = 0
  /\ nodeEnv = "production"
  /\ run = RunIdle

NextSimple ==
  \/ Match(1)
  \/ Screen(1)
  \/ \E ok \in BOOLEAN : VConnect(1, ok)
  \/ \E reply \in ExplainReplies : VExplain(1, reply)
  \/ Finish(1)

SpecSimple == InitSimple /\ [][NextSimple]_vars

(***************************************************************************)
(* SpecClean: one request of the fenced-code pipeline from the moment its  *)
(* model call is in flight, over a large set of model outputs.             *)
(***************************************************************************)
FenceLexemes ==
  <<Fence \o "sql\n", Fence, "\n" \o Fence, "\n", " ", "SELECT 1",
    "Here is the query:\n", "-- the query\n">>

ProseThenFence ==
  "Here is the query:\n" \o Fence \o "sql\nSELECT 1\n" \o Fence

FencedResponses == Texts(FenceLexemes, MaxParts) \cup {ProseThenFence}

InitClean ==
  /\ req = [r \in Reqs |->
              IF r = 1
              THEN [Idle EXCEPT !.variant = "ai",
                                !.question = "Count all products",
                                !.tables = Catalog, !.conns = <<1>>,
                                !.llmCalls = 1, !.pc = "llm",
                                !.stages = <<"schema", "model">>]
              ELSE Idle]
  /\ checkedOut = 0
  /\ nodeEnv = "production"
  /\ run = RunIdle

NextClean ==
  \/ \E response \in FencedResponses : LlmReturn(1, response)
  \/ Parse(1)
  \/ Screen(1)
  \/ \E ok \in BOOLEAN : VConnect(1, ok)
  \/ \E reply \in ExplainReplies : VExplain(1, reply)
  \/ Finish(1)

SpecClean == InitClean /\ [][NextClean]_vars

(***************************************************************************)
(* queryLogSync.js: runWithConcurrency(tasks, concurrency).  Task i of the *)
(* list resolves with a value of its own or rejects with an Error of its   *)
(* own; both are written i in the results.                                 *)
(***************************************************************************)
\* an index of the results array nothing was stored at
Hole == [kind |-> "empty", of |-> -1]
\* what task i resolves with
ValueOf(i) == [kind |-> "value", of |-> i]
\* { error: err.message } for the Error task i rejects with
ErrorOf(i) == [kind |-> "error", of |-> i]

\* one worker runs from the head of its while loop to its next await or to
\* its return: while (index < tasks.length) { currentIndex = index++;
\* await tasks[currentIndex]() ...
WorkerStep(rn, w) ==
  IF rn.index < rn.n
  THEN LET currentIndex == rn.index IN
       [rn EXCEPT !.index = @ + 1,
                  !.status[currentIndex + 1] = "running",
                  !.started[currentIndex + 1] = @ + 1,
                  !.worker[w] = currentIndex]
  ELSE [rn EXCEPT !.worker[w] = -1]

\* Array(concurrency).fill(null).map(() => worker()): the workers w..c are
\* called one after the other, each running up to its first await
RECURSIVE StartWorkers(_, _)
StartWorkers(rn, w) ==
  IF w > rn.concurrency THEN rn ELSE StartWorkers(WorkerStep(rn, w), w + 1)

\* Promise.all over the workers is fulfilled once every worker has returned
Joined(rn) ==
  IF \A w \in 1..rn.concurrency : rn.worker[w] = -1
  THEN [rn EXCEPT !.phase = "joined"] ELSE rn

\* workers that call every task at once and do not await it
RunCallNoAwait(n, c) ==
  /\ run.phase = "idle"
  /\ run' = [run EXCEPT
               !.phase = "joined", !.n = n, !.concurrency = c, !.index = n,
               !.status = [i \in 1..n |-> "running"],
               !.started = [i \in 1..n |-> 1],
               !.results = [i \in 1..n |-> Hole],
               !.worker = [w \in 1..c |-> -1]]
  /\ UNCHANGED <<req, checkedOut, nodeEnv>>

(***************************************************************************)
(* runWithConcurrency is called with n tasks and concurrency c and runs    *)
(* up to its await Promise.all(...).                                       *)
(***************************************************************************)
RunCall(n, c) ==
  /\ run.phase = "idle"
  /\ run' = Joined(StartWorkers(
               [run EXCEPT
                  !.phase = "running", !.n = n, !.concurrency = c,
                  !.status = [i \in 1..n |-> "waiting"],
                  !.started = [i \in 1..n |-> 0],
                  !.results = [i \in 1..n |-> Hole],
                  !.worker = [w \in 1..c |-> -1]], 1))
  /\ UNCHANGED <<req, checkedOut, nodeEnv>>

\* a worker without try / catch: the rejection of a task ends the worker
\* and with it Promise.all
TaskSettlesNoCatch(w, ok) ==
  /\ run.phase = "running"
  /\ w \in 1..run.concurrency
  /\ run.worker[w] >= 0
  /\ LET currentIndex == run.worker[w] IN
     run' = IF ok
            THEN Joined(WorkerStep(
                   [run EXCEPT !.status[currentIndex + 1] = "resolved",
                               !.results[currentIndex + 1] =
                                 ValueOf(currentIndex)], w))
            ELSE [run EXCEPT !.status[currentIndex + 1] = "rejected",
                             !.worker[w] = -1,
                             !.phase = "rejected"]
  /\ UNCHANGED <<req, checkedOut, nodeEnv>>

(***************************************************************************)
(* The task worker w awaits settles: the worker stores the value or        *)
(* { error: err.message } at currentIndex and goes round its loop.         *)
(***************************************************************************)
TaskSettles(w, ok) ==
  /\ run.phase = "running"
  /\ w \in 1..run.concurrency
  /\ run.worker[w] >= 0
  /\ LET currentIndex == run.worker[w] IN
     run' = Joined(WorkerStep(
              [run EXCEPT
                 !.status[currentIndex + 1] =
                    IF ok THEN "resolved" ELSE "rejected",
                 !.results[currentIndex + 1] =
                    IF ok THEN ValueOf(currentIndex)
                    ELSE ErrorOf(currentIndex)], w))
  /\ UNCHANGED <<req, checkedOut, nodeEnv>>

\* return results, after the await of Promise.all
RunReturn ==
  /\ run.phase = "joined"
  /\ run' = [run EXCEPT !.phase = "resolved", !.returned = run.results]
  /\ UNCHANGED <<req, checkedOut, nodeEnv>>

NextRun ==
  \/ \E n \in 0..MaxTasks, c \in 1..MaxWorkers : RunCall(n, c)
  \/ \E w \in 1..MaxWorkers, ok \in BOOLEAN : TaskSettles(w, ok)
  \/ RunReturn

SpecRun == Init /\ [][NextRun]_vars

TypeOK ==
  /\ checkedOut \in Nat
  /\ \A r \in Reqs : req[r].pc \in
       {"idle", "schemaConnect", "schemaQuery", "match", "embed", "lookups",
        "llm", "parse", "validate", "vConnect", "vExplain", "vReturn", "done"}
  /\ nodeEnv \in NodeEnvs
  /\ \A r \in Reqs : req[r].handler \in
       {"none", "awaiting", "returned", "rejected", "abandoned"}

(***************************************************************************)
(* Properties.                                                             *)
(***************************************************************************)
\* validateSqlSyntax has returned for request r
Validated(r) == "isValid" \in DOMAIN req[r].validationResult

\* C1: in each of the three generators, generateSqlFromQuestion returns a
\* SQL string only if that very string was given to validateSqlSyntax in the
\* same request and came back isValid = true (the keyword screen found
\* nothing and EXPLAIN succeeded); in every other case it throws and no SQL
\* reaches the caller.
C1_ReturnsOnlyValidatedSql ==
  \A r \in Reqs :
    LET q == req[r]
        passed == /\ q.vcalls = 1
                  /\ Validated(r)
                  /\ q.validationResult = [isValid |-> TRUE]
                  /\ q.found = ""
                  /\ q.dbReply = "ok"
    IN /\ q.outcome.kind = "returned" =>
            passed /\ q.outcome.sql = q.varg
       /\ q.pc = "done" /\ ~passed =>
            q.outcome.kind = "thrown" /\ "sql" \notin DOMAIN q.outcome
       /\ q.pc = "done" => q.outcome.kind \in {"returned", "thrown"}

\* one request has returned its validated SQL while another was refused
\* by the validator
C1_Witness ==
  \E r1 \in Reqs, r2 \in Reqs :
    /\ req[r1].pc = "done" /\ req[r1].outcome.kind = "returned"
    /\ req[r1].outcome.sql = "SELECT 1"
    /\ req[r2].pc = "done" /\ req[r2].outcome.kind = "thrown"
    /\ Validated(r2) /\ ~req[r2].validationResult.isValid

\* keyword occurs in sql, case-insensitively, as a word bounded on the left
\* by white space or the start of the string and on the right by white space
StandaloneWord(sql, keyword) ==
  LET n == ToLowerCase(sql) IN
  \E i \in 1..Len(n) :
    /\ MatchAt(n, keyword, i)
    /\ i = 1 \/ IsSpace(CharAt(n, i - 1))
    /\ i + Len(keyword) <= Len(n)
    /\ IsSpace(CharAt(n, i + Len(keyword)))

HasStandaloneKeyword(sql) ==
  \E k \in 1..Len(forbiddenKeywords) : StandaloneWord(sql, forbiddenKeywords[k])

\* C2: every copy of validateSqlSyntax returns isValid = false, from its
\* keyword screen, for every statement in which a forbidden token occurs as
\* a standalone word bounded by white space or by the start of the string.
C2_StandaloneKeywordRejected ==
  \A r \in Reqs :
    Validated(r) /\ HasStandaloneKeyword(req[r].varg) =>
      /\ req[r].validationResult.isValid = FALSE
      /\ req[r].found # ""

IsIdentChar(c) ==
  \/ c \in UpperChars
  \/ ToLowerChar(c) \in {LowerOf[u] : u \in UpperChars}
  \/ IsDigit(c)
  \/ c = "_"

\* every occurrence of a forbidden token in sql is part of a longer identifier
OnlyInsideIdentifiers(sql) ==
  LET n == ToLowerCase(sql) IN
  \A k \in 1..Len(forbiddenKeywords) : \A i \in 1..Len(n) :
    MatchAt(n, forbiddenKeywords[k], i) =>
      \/ i > 1 /\ IsIdentChar(CharAt(n, i - 1))
      \/ /\ i + Len(forbiddenKeywords[k]) <= Len(n)
         /\ IsIdentChar(CharAt(n, i + Len(forbiddenKeywords[k])))

\* C3: the keyword screen never rejects a statement whose only occurrences
\* of forbidden tokens are substrings of longer identifiers; such a statement
\* always proceeds to the EXPLAIN stage.
C3_IdentifiersNotRejected ==
  \A r \in Reqs :
    req[r].vcalls = 1 /\ OnlyInsideIdentifiers(req[r].varg) =>
      /\ req[r].found = ""
      /\ req[r].vconnects = 1
      /\ req[r].pc = "vReturn" => req[r].explains = 1

\* the fenced-code copy is about to EXPLAIN a statement that reads from a
\* table named updates
C3_Witness ==
  /\ req[1].variant = "ai"
  /\ req[1].varg = "SELECT * FROM updates"
  /\ req[1].pc = "vExplain"
  /\ req[1].explains = 1

\* C4: when the keyword screen finds a forbidden token, validateSqlSyntax
\* returns isValid = false without checking out a database connection and
\* without issuing an EXPLAIN.
C4_ScreenShortCircuits ==
  \A r \in Reqs :
    req[r].found # "" =>
      /\ req[r].validationResult = [isValid |-> FALSE, error |-> ForbiddenMessage]
      /\ req[r].vconnects = 0
      /\ req[r].explains = 0
      /\ req[r].conns = <<>>
      /\ req[r].dbReply = "none"

\* the pattern-matching copy has refused a DELETE statement
C4_Witness ==
  /\ req[1].variant = "simple"
  /\ req[1].pc = "vReturn"
  /\ req[1].found = "delete"
  /\ req[1].validationResult.isValid = FALSE

\* C5: when the keyword screen passes, validateSqlSyntax returns
\* {isValid: true} if and only if EXPLAIN succeeds; when the database raises
\* an error on EXPLAIN the function does not throw but returns
\* {isValid: false, error: e} with e the database's message unchanged.
C5_ExplainDecides ==
  \A r \in Reqs :
    /\ req[r].dbReply # "none" =>
         /\ req[r].found = ""
         /\ req[r].validationResult =
              IF req[r].dbReply = "ok" THEN [isValid |-> TRUE]
              ELSE [isValid |-> FALSE, error |-> req[r].dbReply]
    /\ Validated(r) /\ req[r].found = "" =>
         /\ req[r].dbReply # "none"
         /\ req[r].validationResult.isValid <=> req[r].dbReply = "ok"

\* EXPLAIN failed for a statement that passed the screen, and the validator
\* has returned the database's message
C5_Witness ==
  /\ req[1].pc = "vReturn"
  /\ req[1].found = ""
  /\ req[1].dbReply = "relation \"t\" does not exist"
  /\ req[1].validationResult.error = "relation \"t\" does not exist"

RECURSIVE SumHeld(_)
SumHeld(n) == IF n = 0 THEN 0 ELSE Held(req[n]) + SumHeld(n - 1)

\* C6: every connection checked out by getTableSchema or validateSqlSyntax
\* is released exactly once before that function returns or throws, whether
\* its query succeeds or fails; once all requests have completed no
\* connection is checked out.
C6_ConnectionsReleasedOnce ==
  /\ checkedOut = SumHeld(NumReqs)
  /\ \A r \in Reqs :
       /\ \A k \in 1..Len(req[r].conns) : req[r].conns[k] \in {0, 1}
       /\ Held(req[r]) <= 1
       /\ req[r].pc \notin {"schemaQuery", "vExplain"} => Held(req[r]) = 0
  /\ (\A r \in Reqs : req[r].pc = "done") => checkedOut = 0

\* two concurrent requests have completed: one used and released both of its
\* connections, the other failed on its catalog query and released its one
C6_Witness ==
  \E r1 \in Reqs, r2 \in Reqs :
    /\ req[r1].pc = "done" /\ req[r1].conns = <<1, 1>>
    /\ req[r1].dbReply \in DbErrors
    /\ req[r2].pc = "done" /\ req[r2].conns = <<1>>
    /\ req[r2].outcome = [kind |-> "thrown", message |-> CatalogError]
    /\ checkedOut = 0

\* C7: in the model-backed pipelines a request holds no checked-out
\* connection while its model call is in flight: the schema connection is
\* released before the call is issued and the validation connection is
\* acquired only after the model response has been received.
C7_NoConnectionAcrossModelCall ==
  \A r \in Reqs :
    /\ req[r].pc = "llm" =>
         /\ Held(req[r]) = 0
         /\ req[r].vconnects = 0
         /\ req[r].variant = "ai" => req[r].conns = <<1>>
    /\ req[r].variant \in {"ai", "tagged"} /\ req[r].vconnects > 0 =>
         req[r].response # "" /\ req[r].llmCalls = 1

\* both model-backed pipelines have their model call in flight at once
C7_Witness ==
  \E r1 \in Reqs, r2 \in Reqs :
    /\ req[r1].variant = "ai" /\ req[r1].pc = "llm" /\ req[r1].conns = <<1>>
    /\ req[r2].variant = "tagged" /\ req[r2].pc = "llm"

\* the parser of request r has run on the model response
Parsed(r) ==
  /\ req[r].variant = "tagged"
  /\ req[r].pc \in {"validate", "vConnect", "vExplain", "vReturn", "done"}
  /\ req[r].llmCalls = 1 /\ req[r].response # ""

\* the text between the first query tag and the first closing tag after it,
\* with the closing tag spelled close
TextBetween(response, close) ==
  LET i == IndexOf(response, QueryOpen)
      rest == Drop(response, i + Len(QueryOpen) - 1)
      j == IndexOf(rest, close)
  IN Take(rest, j - 1)

HasPairWith(response, close) ==
  /\ Includes(response, QueryOpen)
  /\ Includes(Drop(response, IndexOf(response, QueryOpen) + Len(QueryOpen) - 1),
              close)

\* C8: for a tagged response with a query open/close tag pair the parser
\* hands the validator exactly the text between the tags, with no tag text and
\* no text from outside the query section; for the response
\* <@query@>SELECT 1</@query@><@explanation@></@explanation@> (the closing
\* tag spelled as the parser looks for it) that is SELECT 1.
C8_ExtractsExactlyQuerySection ==
  \A r \in Reqs :
    Parsed(r) /\ HasPairWith(req[r].response, QueryClose) =>
      /\ req[r].vcalls = 1 \/ req[r].pc = "validate"
      /\ req[r].sqlQuery = TextBetween(req[r].response, QueryClose)

ExplanationClose == "</@explanation@>"

\* the text of the explanation section: from the explanation tag to its
\* closing tag, or to the end of the response when it is not closed
ExplanationText(response) ==
  LET rest == Drop(response,
                   IndexOf(response, ExplanationOpen) + Len(ExplanationOpen) - 1)
      j == IndexOf(rest, ExplanationClose)
  IN IF j = 0 THEN rest ELSE Take(rest, j - 1)

\* C9: for a tagged response with no query section and an explanation
\* section whose text is T, the parser fails with an error carrying exactly T
\* (no closing tag, no other response text), and the validator is never
\* invoked.
C9_FailsWithExactExplanation ==
  \A r \in Reqs :
    /\ Parsed(r)
    /\ ~Includes(req[r].response, QueryOpen)
    /\ Includes(req[r].response, ExplanationOpen)
    /\ Trim(ExplanationText(req[r].response)) # ""
    => /\ req[r].pc = "done"
       /\ req[r].outcome =
            [kind |-> "thrown",
             message |-> "LLM explanation: "
                           \o Trim(ExplanationText(req[r].response))]
       /\ req[r].vcalls = 0

\* request r has not touched the database and has returned no SQL
FailedWithoutDatabase(r) ==
  /\ req[r].pc = "done"
  /\ req[r].outcome.kind = "thrown"
  /\ req[r].vcalls = 0 /\ req[r].vconnects = 0 /\ req[r].explains = 0
  /\ req[r].conns = <<>>

IsNoQueryProduced(r) ==
  /\ FailedWithoutDatabase(r)
  /\ StartsWith(req[r].outcome.message, "LLM explanation: ")

IsMalformedResponse(r) ==
  /\ FailedWithoutDatabase(r)
  /\ req[r].outcome.message = MalformedMessage

IsValidating(r) ==
  /\ req[r].vcalls = 1 \/ req[r].pc = "validate"
  /\ req[r].outcome.kind = "thrown" =>
       /\ req[r].outcome.message # MalformedMessage
       /\ ~StartsWith(req[r].outcome.message, "LLM explanation: ")

\* C10 as stated: a query tag pair present leads to validation of the
\* candidate; no query pair but an explanation tag present leads to the
\* NoQueryProduced failure; neither tag present leads to the
\* MalformedResponse failure; the failures return no SQL and never contact
\* the database.
C10_ThreeWayOnTagPresence ==
  \A r \in Reqs :
    Parsed(r) =>
      LET pair == HasPairWith(req[r].response, QueryClose)
          expl == Includes(req[r].response, ExplanationOpen)
      IN /\ pair => IsValidating(r)
         /\ ~pair /\ expl => IsNoQueryProduced(r)
         /\ ~pair /\ ~expl => IsMalformedResponse(r)

\* some text follows the first explanation tag of the response
ExplanationFollowed(response) ==
  \E i \in 1..Len(response) :
    /\ MatchAt(response, ExplanationOpen, i)
    /\ i + Len(ExplanationOpen) <= Len(response)

\* C10 amended: a query tag pair with text left once the query tags are
\* removed leads to validation of that text; otherwise an explanation tag
\* followed by at least one character leads to the NoQueryProduced failure;
\* otherwise the request fails with MalformedResponse; exactly one of the
\* three happens, and the failures return no SQL and never contact the
\* database.
C10_ThreeWayOnContent ==
  \A r \in Reqs :
    Parsed(r) =>
      LET query == /\ HasPairWith(req[r].response, QueryClose)
                   /\ StripQueryTags(req[r].response) # ""
          expl == ExplanationFollowed(req[r].response)
      IN /\ query =>
              IsValidating(r) /\ req[r].sqlQuery = StripQueryTags(req[r].response)
         /\ ~query /\ expl => IsNoQueryProduced(r)
         /\ ~query /\ ~expl => IsMalformedResponse(r)
         /\ Cardinality({b \in {IsValidating(r), IsNoQueryProduced(r),
                                IsMalformedResponse(r)} : b}) = 1

\* an empty query section followed by nothing was refused as malformed
\* without touching the database
C10_Witness ==
  /\ req[1].response = "<@query@></@query@>"
  /\ IsMalformedResponse(1)

\* cleanSqlResponse has been applied to the model output of request r of the
\* fenced-code pipeline
Cleaned(r) ==
  /\ req[r].variant = "ai"
  /\ req[r].pc \in {"validate", "vConnect", "vExplain", "vReturn", "done"}
  /\ req[r].llmCalls = 1 /\ req[r].response # ""

\* C11: in the fenced-code pipeline, when nothing is left of the model output
\* after the fences are stripped and the explanatory lines dropped, the
\* request fails with the malformed-response error at the parse stage: the
\* empty string is never given to validateSqlSyntax and no EXPLAIN is issued
\* for it.
C11_EmptyCandidateFailsAtParse ==
  \A r \in Reqs :
    Cleaned(r) /\ cleanSqlResponse(req[r].response) = "" =>
      /\ req[r].pc = "done"
      /\ req[r].outcome = [kind |-> "thrown", message |-> MalformedMessage]
      /\ req[r].vcalls = 0
      /\ req[r].explains = 0

\* neither a tag of the tagged format nor a code fence occurs in response
IsPureProse(response) ==
  /\ response # ""
  /\ ~Includes(response, Fence)
  /\ ~Includes(response, "<@")
  /\ ~Includes(response, "@>")

\* C12: in the pipeline wired into the HTTP route, a model output that is
\* pure prose (no tags, no fences) makes the request fail with the
\* malformed-response error produced by the parser, the validator is not
\* reached and no SQL is returned to the client.
C12_ProseFailsInParser ==
  \A r \in Reqs :
    req[r].handler # "none" /\ Cleaned(r) /\ IsPureProse(req[r].response) =>
      /\ req[r].pc = "done"
      /\ req[r].outcome = [kind |-> "thrown", message |-> MalformedMessage]
      /\ req[r].vcalls = 0
      /\ \A k \in 1..Len(req[r].responses) :
           "sql" \notin DOMAIN req[r].responses[k].body

\* generateSimpleQuery has run for request r of the pattern-matching path
Matched(r) ==
  /\ req[r].variant = "simple"
  /\ req[r].pc \in {"validate", "vConnect", "vExplain", "vReturn", "done"}
  /\ req[r].tables # <<>>

MissingQuestion(r) == req[r].body # NoBody /\ ~Truthy(req[r].body)

\* generateSqlFromQuestion was never called for request r: no schema fetch,
\* no model call, no EXPLAIN
GeneratorUntouched(r) ==
  /\ req[r].pc = "idle" /\ req[r].variant = "none"
  /\ req[r].stages = <<>> /\ req[r].conns = <<>>
  /\ req[r].llmCalls = 0 /\ req[r].vcalls = 0 /\ req[r].explains = 0

\* C14: a POST /generate-sql whose question is missing or empty is answered
\* with status 400 and an error body, and generateSqlFromQuestion is never
\* called for it (no schema fetch, no model call, no EXPLAIN).
C14_MissingQuestionIs400 ==
  \A r \in Reqs :
    MissingQuestion(r) =>
      /\ req[r].responses =
           <<[status |-> 400, body |-> [error |-> QuestionRequired]]>>
      /\ req[r].handler = "returned"
      /\ GeneratorUntouched(r)

\* one request without a question field and one with an empty question were
\* both answered 400 while the pool was never used
C14_Witness ==
  /\ req[1].body = Undefined /\ req[2].body = Str("")
  /\ \A r \in {1, 2} : /\ Len(req[r].responses) = 1
                      /\ req[r].responses[1].status = 400
  /\ checkedOut = 0

\* C15: the route maps the outcomes of generateSqlFromQuestion to responses:
\* a returned string s gives 200 with body {sql: s}, s being exactly the
\* validated string; a throw gives 500 with an error body; a missing question
\* gives 400; the missing-question case and the generation-failure case never
\* share a status code, and a failure response never carries an sql field.
C15_RouteMapsOutcomes ==
  \A r \in Reqs :
    req[r].handler = "returned" =>
      /\ Len(req[r].responses) = 1
      /\ LET res == req[r].responses[1] IN
         /\ req[r].outcome.kind = "returned" =>
              /\ res = [status |-> 200, body |-> [sql |-> req[r].outcome.sql]]
              /\ res.body.sql = req[r].varg
              /\ req[r].validationResult = [isValid |-> TRUE]
         /\ req[r].outcome.kind = "thrown" =>
              res = [status |-> 500, body |-> [error |-> FailedToGenerate]]
         /\ MissingQuestion(r) => res.status = 400
         /\ res.status = 400 => req[r].outcome.kind = "none"
         /\ res.status = 500 => ~MissingQuestion(r)
         /\ res.status # 200 =>
              "sql" \notin DOMAIN res.body /\ "error" \in DOMAIN res.body
         /\ res.status = 200 => req[r].outcome.kind = "returned"

\* one request was answered 200 with the validated statement and another
\* 500 after its generation failed
C15_Witness ==
  \E r1 \in Reqs, r2 \in Reqs :
    /\ req[r1].responses = <<[status |-> 200, body |-> [sql |-> "SELECT 1"]]>>
    /\ req[r1].varg = "SELECT 1"
    /\ req[r2].outcome.kind = "thrown"
    /\ req[r2].responses =
         <<[status |-> 500, body |-> [error |-> FailedToGenerate]]>>

\* C16: every POST /generate-sql, whatever the value of question (absent,
\* empty, a string, or a non-string such as a number or an object), gets
\* exactly one HTTP response: once its handler has run to its end, one
\* response has been sent, and never more than one.
C16_ExactlyOneResponse ==
  \A r \in Reqs :
    /\ Len(req[r].responses) <= 1
    /\ req[r].handler \in {"returned", "abandoned"} =>
         Len(req[r].responses) = 1

\* C17: when generation or validation fails, the error sent to the client is
\* generic in production and carries the full detail of the failure when
\* NODE_ENV is development.
C17_DetailOnlyInDevelopment ==
  \A r \in Reqs :
    req[r].handler = "returned" /\ req[r].outcome.kind = "thrown" =>
      LET body == req[r].responses[1].body
          detailed == \/ Includes(body.error, req[r].outcome.message)
                      \/ /\ "message" \in DOMAIN body
                         /\ Includes(body.message, req[r].outcome.message)
      IN detailed = (nodeEnv = "development")

\* the stages of generateSqlFromQuestion in the order the code calls them
Pipeline(v) ==
  CASE v = "ai" -> <<"schema", "model", "parse", "validate">>
    [] v = "tagged" -> <<"context", "model", "parse", "validate">>
    [] v = "simple" -> <<"schema", "match", "validate">>
    [] OTHER -> <<>>

\* message is an error that stage raises
RaisedBy(stage, message) ==
  CASE stage = "schema" -> message \in {ConnectError, CatalogError}
    [] stage = "context" -> message \in {EmbeddingError, LookupError}
    [] stage = "model" -> message = GenerationError
    [] stage = "match" -> StartsWith(message, "I couldn't understand")
    [] stage = "parse" -> \/ message = MalformedMessage
                          \/ StartsWith(message, "LLM explanation: ")
    [] stage = "validate" -> \/ message = ConnectError
                             \/ StartsWith(message, "Generated SQL is invalid: ")
    [] OTHER -> FALSE

\* C18: no stage is retried: within one request each stage (schema fetch or
\* context retrieval, model call, parse, validation) is invoked at most once
\* and in pipeline order; the first failing stage ends the request, no later
\* stage runs, and the caller gets one terminal error, raised by that stage.
C18_NoStageRetried ==
  \A r \in Reqs :
    LET q == req[r]
        n == Len(q.stages)
    IN /\ n <= Len(Pipeline(q.variant))
       /\ q.stages = SubSeq(Pipeline(q.variant), 1, n)
       /\ q.llmCalls = Cardinality({k \in 1..n : q.stages[k] = "model"})
       /\ q.vcalls = Cardinality({k \in 1..n : q.stages[k] = "validate"})
       /\ q.vconnects <= q.vcalls /\ q.explains <= q.vconnects
       /\ Len(q.conns) <= 2
       /\ q.outcome.kind = "thrown" =>
            /\ q.pc = "done"
            /\ n >= 1 /\ RaisedBy(q.stages[n], q.outcome.message)
       /\ q.outcome.kind = "returned" =>
            q.pc = "done" /\ q.stages = Pipeline(q.variant)
       /\ q.pc = "done" => q.outcome.kind \in {"thrown", "returned"}

\* one request was ended by its failed model call without parse or
\* validation, another by the parser without validation
C18_Witness ==
  \E r1 \in Reqs, r2 \in Reqs :
    /\ req[r1].variant = "ai"
    /\ req[r1].outcome = [kind |-> "thrown", message |-> GenerationError]
    /\ req[r1].stages = <<"schema", "model">>
    /\ req[r1].llmCalls = 1 /\ req[r1].vcalls = 0
    /\ req[r2].variant = "tagged"
    /\ req[r2].outcome.kind = "thrown"
    /\ req[r2].stages = <<"context", "model", "parse">>
    /\ req[r2].llmCalls = 1 /\ req[r2].vcalls = 0

\* C19: in retrieveContext the table lookup (topK 5) and the query-intent
\* lookup (topK 3) are issued together once the embedding is there and may
\* complete in either order; the prompt is composed and the model called
\* only after both have completed; if either fails the request fails and
\* neither the prompt is composed nor the model invoked.
C19_BothLookupsBeforeModel ==
  \A r \in Reqs :
    req[r].variant = "tagged" =>
      LET q == req[r]
          both == q.lookT = "ok" /\ q.lookQ = "ok"
          failed == q.lookT = "failed" \/ q.lookQ = "failed"
      IN /\ (q.lookT = "none") = (q.lookQ = "none")
         /\ q.lookT = "none" =>
              q.pc \in {"embed", "done"} /\ q.topK = [T |-> 0, Q |-> 0]
         /\ q.lookT # "none" => q.topK = [T |-> 5, Q |-> 3]
         /\ q.pc = "embed" => q.lookT = "none"
         /\ q.pc = "lookups" => ~both /\ ~failed
         /\ (q.llmCalls > 0 \/ q.response # "" \/ Len(q.stages) > 1) => both
         /\ both => q.llmCalls = 1 /\ q.pc # "lookups"
         /\ failed =>
              /\ q.outcome = [kind |-> "thrown", message |-> LookupError]
              /\ q.llmCalls = 0 /\ q.response = "" /\ q.stages = <<"context">>

\* the table lookup of one request completed while its query-intent lookup
\* was still pending, and in another request the query-intent lookup
\* completed first and the table lookup then failed the request before any
\* model call
C19_Witness ==
  \E r1 \in Reqs, r2 \in Reqs :
    /\ req[r1].variant = "tagged" /\ req[r1].pc = "lookups"
    /\ req[r1].lookT = "ok" /\ req[r1].lookQ = "pending"
    /\ req[r2].variant = "tagged" /\ req[r2].pc = "done"
    /\ req[r2].lookQ = "ok" /\ req[r2].lookT = "failed"
    /\ req[r2].outcome = [kind |-> "thrown", message |-> LookupError]
    /\ req[r2].llmCalls = 0

\* question contains none of the phrases generateSimpleQuery looks for
NoPattern(question) ==
  LET lowerQuestion == ToLowerCase(question) IN
  /\ \A phrase \in {"users", "products", "orders", "total revenue",
                    "total sales"} : ~Includes(lowerQuestion, phrase)
  /\ ~(Includes(lowerQuestion, "product") /\ Includes(lowerQuestion, "category"))

\* C20: the pattern-matching path fails closed: for a question that matches
\* no pattern, generateSqlFromQuestion throws an error that lists the
\* available tables; no SQL and no default query is produced, and
\* validateSqlSyntax is not invoked.
C20_NoPatternFailsClosed ==
  \A r \in Reqs :
    /\ req[r].variant = "simple"
    /\ Len(req[r].stages) >= 2
    /\ NoPattern(req[r].question)
    => /\ req[r].pc = "done"
       /\ req[r].outcome.kind = "thrown"
       /\ StartsWith(req[r].outcome.message,
            "I couldn't understand your question. Available tables: "
              \o "order_items, orders, products, users. ")
       /\ req[r].sqlQuery = ""
       /\ req[r].stages = <<"schema", "match">>
       /\ req[r].vcalls = 0 /\ req[r].vconnects = 0 /\ req[r].explains = 0

\* a question about a single product, which no pattern covers, was refused
\* with the list of tables and without a validator call
C20_Witness ==
  /\ req[1].question = "Show product "
  /\ req[1].pc = "done"
  /\ req[1].outcome.kind = "thrown"
  /\ Includes(req[1].outcome.message, "Available tables: order_items, orders")
  /\ req[1].vcalls = 0

\* C21: on the pattern-matching path each documented complex question gets
\* its own template instead of a plain table listing: "Top products" and
\* "Popular products" the ranking of products joined to order_items with
\* LIMIT 10, "Orders by user" and "User orders" the per-user order count and
\* total spent, "Recent orders" the orders created within the last N days
\* (30 when the question gives no number).
C21_ComplexPatternsHaveTemplates ==
  \A r \in Reqs :
    Matched(r) =>
      LET question == req[r].question
          sql == req[r].sqlQuery
      IN /\ question \in {"Top products", "Popular products"} =>
              /\ Includes(sql, "JOIN order_items oi ON p.id = oi.product_id")
              /\ EndsWith(sql, "LIMIT 10")
         /\ question \in {"Orders by user", "User orders"} =>
              /\ Includes(sql, "COUNT(o.id) as order_count")
              /\ Includes(sql, "GROUP BY u.id")
         /\ question = "Recent orders in last 7 days" =>
              Includes(sql, "created_at >= NOW() - INTERVAL '7 days'")
         /\ question = "Recent orders" =>
              Includes(sql, "created_at >= NOW() - INTERVAL '30 days'")

\* the name occurs among the tables getTableSchema returned
HasTable(tables, name) == \E k \in 1..Len(tables) : tables[k] = name

\* C22: on the pattern-matching path the question "Count all products" over
\* a schema with a products table yields exactly
\* SELECT COUNT(*) as total FROM products; that string passes the keyword
\* screen, and when EXPLAIN succeeds it is judged valid and returned.
C22_CountAllProducts ==
  \A r \in Reqs :
    /\ Matched(r)
    /\ req[r].question = "Count all products"
    /\ HasTable(req[r].tables, "products")
    => /\ req[r].sqlQuery = "SELECT COUNT(*) as total FROM products"
       /\ req[r].vcalls = 1 =>
            /\ req[r].varg = "SELECT COUNT(*) as total FROM products"
            /\ req[r].found = ""
            /\ req[r].pc # "vReturn" \/ req[r].dbReply # "none"
       /\ req[r].dbReply = "ok" =>
            req[r].validationResult = [isValid |-> TRUE]
       /\ req[r].dbReply = "ok" /\ req[r].pc = "done" =>
            req[r].outcome =
              [kind |-> "returned",
               sql |-> "SELECT COUNT(*) as total FROM products"]

\* "Count all products" went through both stages and was returned
C22_Witness ==
  /\ req[1].variant = "simple"
  /\ req[1].question = "Count all products"
  /\ req[1].found = "" /\ req[1].dbReply = "ok"
  /\ req[1].outcome =
       [kind |-> "returned", sql |-> "SELECT COUNT(*) as total FROM products"]

\* a question that is matched, does not mention count, and mentions users
\* and active
AsksActiveUsers(r) ==
  LET lowerQuestion == ToLowerCase(req[r].question) IN
  /\ Matched(r)
  /\ ~Includes(lowerQuestion, "count")
  /\ Includes(lowerQuestion, "users")
  /\ Includes(lowerQuestion, "active")

\* the statement reads FROM users with the predicate status = 'active' and
\* ends with a row-limit clause
ListsActiveUsers(sql) ==
  /\ Includes(sql, " FROM users ")
  /\ Includes(sql, " WHERE status = 'active' ")
  /\ EndsWith(sql, " LIMIT 100")

\* C23 as stated: "Show active users", and any non-count question that
\* mentions users and active, yields SQL that reads FROM users, has the
\* predicate status = 'active' and ends with a row-limit clause.
C23_ActiveUsersAnyQuestion ==
  \A r \in Reqs : AsksActiveUsers(r) => ListsActiveUsers(req[r].sqlQuery)

\* the question mentions total revenue or total sales
AsksRevenue(question) ==
  \/ Includes(ToLowerCase(question), "total revenue")
  \/ Includes(ToLowerCase(question), "total sales")

\* C23 amended: "Show active users", and any question that mentions users
\* and active but neither count nor total revenue nor total sales, yields
\* exactly SELECT * FROM users WHERE status = 'active' LIMIT 100: it reads
\* FROM users, has the predicate status = 'active' and ends with a
\* row-limit clause.
C23_ActiveUsersUnlessRevenue ==
  \A r \in Reqs :
    AsksActiveUsers(r) /\ ~AsksRevenue(req[r].question) =>
      /\ req[r].sqlQuery = "SELECT * FROM users WHERE status = 'active' LIMIT 100"
      /\ ListsActiveUsers(req[r].sqlQuery)

\* "Show active users" was answered with the filtered, limited listing
C23_Witness ==
  /\ req[1].variant = "simple"
  /\ req[1].question = "Show active users"
  /\ req[1].outcome =
       [kind |-> "returned",
        sql |-> "SELECT * FROM users WHERE status = 'active' LIMIT 100"]

\* C24: on the pattern-matching path the question "Total revenue" (and any
\* question mentioning total revenue or total sales that is not a count
\* question) yields SQL that sums total_amount over the orders table
\* restricted to the rows whose status is 'completed'.
C24_TotalRevenue ==
  \A r \in Reqs :
    /\ Matched(r)
    /\ AsksRevenue(req[r].question)
    /\ ~Includes(ToLowerCase(req[r].question), "count")
    => /\ StartsWith(req[r].sqlQuery, "SELECT SUM(total_amount) ")
       /\ Includes(req[r].sqlQuery, " FROM orders ")
       /\ EndsWith(req[r].sqlQuery, " WHERE status = 'completed'")
       /\ req[r].vcalls = 1 => req[r].varg = req[r].sqlQuery /\ req[r].found = ""

\* "Total revenue" was answered with the sum over the completed orders
C24_Witness ==
  /\ req[1].variant = "simple"
  /\ req[1].question = "Total revenue"
  /\ req[1].outcome.kind = "returned"
  /\ req[1].outcome.sql =
       "SELECT SUM(total_amount) as total_revenue FROM orders WHERE status = 'completed'"

\* C25: on the pattern-matching path a non-count question that mentions
\* users and the word inactive (such as "Show inactive users") yields SQL
\* whose predicate is status = 'inactive', not status = 'active'.
C25_InactiveUsersFiltered ==
  \A r \in Reqs :
    LET lowerQuestion == ToLowerCase(req[r].question) IN
    /\ Matched(r)
    /\ ~Includes(lowerQuestion, "count")
    /\ ~AsksRevenue(req[r].question)
    /\ Includes(lowerQuestion, "users")
    /\ Includes(lowerQuestion, "inactive")
    => /\ Includes(req[r].sqlQuery, "status = 'inactive'")
       /\ ~Includes(req[r].sqlQuery, "status = 'active'")

\* C26: the three copies of validateSqlSyntax are equivalent: for every
\* statement and every EXPLAIN outcome they give the same isValid verdict;
\* the copy that ran screens the statement as each of the three copies
\* does, and its verdict after EXPLAIN is the one each copy would give.
C26_ValidatorCopiesAgree ==
  \A r \in Reqs :
    req[r].vcalls = 1 =>
      \A v \in Variants :
        LET screened == foundForbiddenKeyword(v, req[r].varg) = "" IN
        /\ screened = (req[r].found = "")
        /\ Validated(r) /\ req[r].dbReply # "none" =>
             req[r].validationResult.isValid =
               (screened /\ req[r].dbReply = "ok")

\* every phrase generateSimpleQuery tests the lower-cased question for
TestedPhrases ==
  {"count", "users", "active", "inactive", "products", "orders", "completed",
   "pending", "cancelled", "electronics", "furniture", "stationery",
   "total revenue", "total sales", "orders by user", "user orders",
   "top products", "popular products", "recent orders", "product", "category"}

\* the outcome of every keyword test on the question
KeywordTests(question) ==
  LET lowerQuestion == ToLowerCase(question) IN
  {phrase \in TestedPhrases : Includes(lowerQuestion, phrase)}

\* the statements written in generateSimpleQuery that take nothing from the
\* question
FixedTemplates ==
  {"SELECT COUNT(*) as total FROM users",
   "SELECT COUNT(*) as total FROM users WHERE status = 'active'",
   "SELECT COUNT(*) as total FROM products",
   "SELECT COUNT(*) as total FROM orders",
   "SELECT COUNT(*) as total FROM orders WHERE status = 'completed'",
   "SELECT SUM(total_amount) as total_revenue FROM orders WHERE status = 'completed'",
   "SELECT * FROM users LIMIT 100",
   "SELECT * FROM users WHERE status = 'active' LIMIT 100",
   "SELECT * FROM users WHERE status = 'inactive' LIMIT 100",
   "SELECT * FROM products LIMIT 100",
   "SELECT * FROM products WHERE category = 'Electronics' LIMIT 100",
   "SELECT * FROM products WHERE category = 'Furniture' LIMIT 100",
   "SELECT * FROM products WHERE category = 'Stationery' LIMIT 100",
   "SELECT * FROM orders LIMIT 100",
   "SELECT * FROM orders WHERE status = 'completed' LIMIT 100",
   "SELECT * FROM orders WHERE status = 'pending' LIMIT 100",
   "SELECT * FROM orders WHERE status = 'cancelled' LIMIT 100",
   OrdersByUserSql, TopProductsSql, ProductCategorySql}

\* other wordings of questions, used to compare questions that pass the same
\* keyword tests
Paraphrases ==
  {"List the ACTIVE users", "COUNT the PRODUCTS, please", "users",
   "what is our total revenue?", "orders, all of them", "a joke",
   "product mix per category", "which orders are completed"}

\* what the keyword tests, the day count and generateSimpleQuery give for
\* each of the other wordings
ParaphraseOutcome ==
  [other \in Paraphrases |->
     [tests |-> KeywordTests(other),
      days |-> DaysGroup(ToLowerCase(other)),
      result |-> generateSimpleQuery(other, Catalog)]]

\* C27: on the pattern-matching path no text of the question flows into the
\* SQL: the statement is one of the fixed templates, the only fragment of
\* the question in it being the digits of the day count, and a question
\* that passes the same keyword tests and gives the same digits gets the
\* identical statement.
C27_NoQuestionTextInSql ==
  \A r \in Reqs :
    Matched(r) /\ req[r].sqlQuery # "" =>
      LET days == DaysGroup(ToLowerCase(req[r].question))
          tests == KeywordTests(req[r].question)
      IN /\ \/ req[r].sqlQuery \in FixedTemplates
            \/ req[r].sqlQuery = RecentOrdersSql(IF days # "" THEN days ELSE "30")
         /\ \A c \in 1..Len(days) : IsDigit(CharAt(days, c))
         /\ \A other \in Paraphrases :
              /\ ParaphraseOutcome[other].tests = tests
              /\ ParaphraseOutcome[other].days = days
              => ParaphraseOutcome[other].result =
                   [kind |-> "query", sql |-> req[r].sqlQuery]

\* "Show active users" and a differently worded question that passes the
\* same keyword tests got the same statement
C27_Witness ==
  /\ req[1].variant = "simple"
  /\ req[1].question = "Show active users"
  /\ KeywordTests("List the ACTIVE users") = KeywordTests(req[1].question)
  /\ req[1].outcome.kind = "returned"
  /\ ParaphraseOutcome["List the ACTIVE users"].result.sql = req[1].outcome.sql

\* the line is a code-fence marker, is blank, or starts with --
IsDroppedLine(line) ==
  \/ StartsWith(Trim(line), Fence)
  \/ Trim(line) = ""
  \/ StartsWith(Trim(line), "--")

\* C28: cleanSqlResponse is idempotent and fence-free: for every model
\* response, cleaning the cleaned text again changes nothing, and no line
\* of the cleaned text is a code-fence marker, is blank or starts with --,
\* also when prose or a comment precedes the opening fence.
C28_CleanIsIdempotentAndFenceFree ==
  \A r \in Reqs :
    Cleaned(r) =>
      LET sql == req[r].sqlQuery
          lines == SplitLines(sql)
      IN /\ sql = cleanSqlResponse(req[r].response)
         /\ cleanSqlResponse(sql) = sql
         /\ sql # "" => \A k \in 1..Len(lines) : ~IsDroppedLine(lines[k])

(***************************************************************************)
(* C29: under every interleaving of the workers of runWithConcurrency each *)
(* task is started at most once and, when the returned promise resolves,   *)
(* exactly once; results[i] holds the value of tasks[i] or the error       *)
(* record of its rejection; a rejection neither stops a worker while tasks *)
(* remain nor rejects the returned promise; and the promise resolves, with *)
(* the results, only after every task has settled.                         *)
(***************************************************************************)
Settled(i) == run.status[i] \in {"resolved", "rejected"}

C29_EveryTaskOnceAndCollected ==
  /\ run.phase # "rejected"
  /\ \A i \in 1..run.n :
       /\ run.started[i] <= 1
       /\ run.started[i] = 0 <=> run.status[i] = "waiting"
       /\ run.status[i] = "resolved" => run.results[i] = ValueOf(i - 1)
       /\ run.status[i] = "rejected" => run.results[i] = ErrorOf(i - 1)
       /\ ~Settled(i) => run.results[i] = Hole
  /\ run.phase = "running" /\ (\E i \in 1..run.n : run.status[i] = "waiting")
       => \A w \in 1..run.concurrency : run.worker[w] >= 0
  /\ run.phase \in {"joined", "resolved"} =>
       \A i \in 1..run.n : run.started[i] = 1 /\ Settled(i)
  /\ run.phase = "resolved" => run.returned = run.results

\* a run of three tasks on two workers resolved although the first task
\* rejected: the later tasks ran and their values are returned
C29_Witness ==
  /\ run.phase = "resolved"
  /\ run.n = 3
  /\ run.concurrency = 2
  /\ run.returned = <<ErrorOf(0), ValueOf(1), ValueOf(2)>>

(***************************************************************************)
(* C30: while runWithConcurrency runs, the tasks in flight are never more  *)
(* than the concurrency and never more than the tasks; a run over no task  *)
(* starts nothing and resolves with the empty result.                      *)
(***************************************************************************)
InFlight == Cardinality({i \in 1..run.n : run.status[i] = "running"})

C30_InFlightBounded ==
  run.phase # "idle" =>
    /\ InFlight <= run.concurrency
    /\ InFlight <= run.n
    /\ InFlight = Cardinality({w \in 1..run.concurrency : run.worker[w] >= 0})
    /\ run.n = 0 =>
         /\ run.index = 0
         /\ run.started = <<>>
         /\ run.phase \in {"joined", "resolved"}
         /\ run.phase = "resolved" => run.returned = <<>>

\* more tasks than workers: every worker awaits a task, one task has been
\* settled and another still waits
C30_Witness ==
  /\ run.phase = "running"
  /\ run.n > run.concurrency
  /\ InFlight = run.concurrency
  /\ \E i \in 1..run.n : Settled(i)
  /\ \E i \in 1..run.n : run.status[i] = "waiting"
====
